---- MODULE Spec2Model ----
(***************************************************************************)
(* A model of the BAMOT core (src/bamot/core/mot.py): the run loop, the    *)
(* frame step, the three-stage association and process-match, together    *)
(* with the threads of src/run_kitti_gt_mot.py that feed and drain it.     *)
(*                                                                         *)
(* Geometry is abstracted to what the control flow reads of it: a track    *)
(* keeps the key sets of its per-frame maps, the number of its landmarks   *)
(* and its flags; every geometric test (triangulation, PnP, plausibility   *)
(* gate, in-view test, depth sign) is an input of the frame, drawn from    *)
(* the outcomes the test can have. The two per-class settings               *)
(* MIN_LANDMARKS_CAR and MIN_LANDMARKS_PED are kept as one value.           *)
(***************************************************************************)
EXTENDS Integers, Sequences, FiniteSets, TLC

\* ---- bounds of the model ------------------------------------------------
MaxFrames == 3          \* length of the image stream
MaxDet == 1             \* detections per frame
MaxExtId == 2           \* external (2D tracker) ids are 1..MaxExtId
MaxLandmarks == 2       \* landmarks per track (additions saturate here)
MaxMatches == 6         \* track matches of one detection, in a call on its own
MaxPoses == 3           \* poses of a track, in a call on its own
MaxCoord == 2           \* translations of these poses are 0..MaxCoord
MaxTrackFrames == 5     \* frames of a track handed to get_median_translation

\* ---- configuration (bamot.config) ---------------------------------------
KEEP_TRACK_FOR_N_FRAMES_AFTER_LOST == 1
BA_EVERY_N_STEPS == 2
SLIDING_WINDOW_BA == 2
MinLandmarksValues == {0, 2}
Trust2DValues == {"no", "partial", "yes"}
Classes == {"car", "pedestrian"}

\* uuid.uuid1().int values are 128-bit numbers, far above every other id;
\* the n-th fresh value is UuidBase + n.
UuidBase == 100

VARIABLES
    TRUST_2D,               \* config.TRUST_2D
    MIN_LANDMARKS,          \* config.MIN_LANDMARKS_CAR / _PED (one value)
    continuous_until_img_id,
    nframes,                \* length of the image stream
    pc,                     \* position of run: top, wait_next, wait_pose,
                            \*   shutdown, done, crashed
    frame,                  \* number of images taken from the stream
    img_id,                 \* img_id of the frame in progress (-1: none)
    active_object_tracks,   \* id -> track
    active_order,           \* insertion order of active_object_tracks
    all_object_tracks,      \* the graveyard: id -> track
    track_id_mapping,       \* external id -> internal id
    all_poses_bound,        \* whether run's local all_poses is assigned
    all_poses,              \* the number of poses in the message taken last
    uuid_count,             \* number of uuid1() values drawn
    stop_flag, next_step,   \* threading.Event
    stop_requested,         \* history: stop_flag was set from outside run
    slam_put,               \* number of messages _fake_slam has put
    slam_taken,             \* number of messages run has taken
    shared_data,            \* every item put on the queue, in order
    consumed,               \* number of items the consumer has taken
    consumer_pc,            \* position of the consumer loop: check, get, exit
    writer_data_2d, writer_data_3d, writer_obb_data,
    returned_data,
    discarded,              \* history: <<id, first img_id>> of the tracks dropped
                            \*   with fewer than 2 poses
    ba_log,                 \* history: per frame whose step returned, the active
                            \*   ids at its start, the BA slots and tracks_to_run_ba
    call, result,           \* a call of one function on its own, and what it returned
    last,                   \* history: what step did in the last frame that was
                            \*   published, and whether the frame after it raised
    seen_detection          \* history: some frame had a detection

vars == << TRUST_2D, MIN_LANDMARKS, continuous_until_img_id, nframes, pc, frame,
           img_id, active_object_tracks, active_order, all_object_tracks,
           track_id_mapping, all_poses_bound, all_poses, uuid_count, stop_flag, next_step,
           stop_requested, slam_put, slam_taken, shared_data, consumed,
           consumer_pc, writer_data_2d, writer_data_3d, writer_obb_data,
           returned_data, discarded, ba_log, call, result, last, seen_detection >>

\* ---- small helpers ------------------------------------------------------
Range(s) == { s[i] : i \in 1..Len(s) }

Min(a, b) == IF a < b THEN a ELSE b

MaxOf(S, default) == IF S = {} THEN default ELSE CHOOSE x \in S : \A y \in S : y <= x

\* dict[key] = value on a dict kept as (order, function): a new key is appended
AppendKey(s, k) == IF k \in Range(s) THEN s ELSE Append(s, k)

RemoveKeys(s, K) == SelectSeq(s, LAMBDA k : k \notin K)

\* ---- ObjectTrack --------------------------------------------------------
\* A new track as step builds it: only cls, masks and the seeded pose are given.
NewTrack(cls, img) ==
    [ cls |-> cls, masks |-> TRUE, lm |-> 0, poses |-> << img >>,
      locations |-> << >>, pcl_centers |-> {}, rot_angle |-> {},
      active |-> TRUE, in_view |-> TRUE, badly_tracked_frames |-> 0,
      too_far |-> FALSE ]

\* get_median_translation raises KeyError when one of the frames it reads has
\* no location; it reads frames[0 .. n-1] with n = len(frames[-2W:]).
MedianTranslationRaises(track) ==
    LET n == Min(Len(track.poses), 2 * SLIDING_WINDOW_BA)
    IN  \E i \in 1..n : n >= 2 /\ track.poses[i] \notin Range(track.locations)

\* The four per-frame entries process-match and constant-motion write together.
RecordFrame(track, id) ==
    [ track EXCEPT !.poses = AppendKey(@, id),
                   !.pcl_centers = @ \cup {id},
                   !.locations = AppendKey(@, id),
                   !.rot_angle = @ \cup {id} ]

\* _add_constant_motion_to_track; behind: the pcl center has negative depth
AddConstantMotion(track, id, behind) ==
    IF track.poses = << >> THEN track
    ELSE IF track.lm > 0
         THEN LET t1 == RecordFrame(track, id)
                  t2 == [ t1 EXCEPT !.masks = track.in_view ]
              IN  IF Len(t2.poses) > 1 /\ behind
                  THEN [ t2 EXCEPT !.active = FALSE ]
                  ELSE t2
         ELSE track

\* object_bundle_adjustment: poses of the window and landmark positions are
\* overwritten; no key and no landmark is added or removed.
ObjectBundleAdjustment(track) == track

\* Outcomes of the geometry of one process-match call.
\*   cur    : current_landmarks is non-empty (an observation was added or a
\*            landmark was triangulated)
\*   lm     : number of landmarks left after additions and outlier removal
\*   far    : the new dist_from_cam exceeds MAX_DIST
\*   behind : the pcl center of the frame has negative depth in the camera
Outcomes == [ cur : BOOLEAN, lm : 0..MaxLandmarks, far : BOOLEAN, behind : BOOLEAN ]

\* Without current landmarks nothing is added, pruned or measured.
OutcomeFits(track, o) ==
    /\ ~o.cur => (o.lm = track.lm /\ ~o.far)
    /\ (o.lm = 0) => ~o.behind

\* Variant: badly_tracked_frames is left as it was.
ProcessMatchToBA_KeepsCount(track, o) ==
    [ track EXCEPT !.active = TRUE,
                   !.lm = IF o.cur THEN o.lm ELSE @,
                   !.too_far = IF o.cur THEN o.far ELSE @ ]

\* The track object as process-match has mutated it when it reaches the bundle
\* adjustment (which, when it runs, goes on with a deep copy).
ProcessMatchToBA(track, o) ==
    [ track EXCEPT !.active = TRUE,
                   !.badly_tracked_frames = 0,
                   !.lm = IF o.cur THEN o.lm ELSE @,
                   !.too_far = IF o.cur THEN o.far ELSE @ ]

\* Variant: the slot of the frame is not looked at.
RunsBA_EveryFrame(track, o, run_ba) ==
    LET t == ProcessMatchToBA(track, o)
    IN  Len(t.poses) > 3 /\ t.lm > 0

\* len(track.poses) > 3 and track.landmarks and run_ba
RunsBA(track, o, run_ba) ==
    LET t == ProcessMatchToBA(track, o)
    IN  Len(t.poses) > 3 /\ t.lm > 0 /\ run_ba

\* _process_match from the bundle adjustment on: pose, robust init, range
\* test, the four per-frame entries and the behind-camera test.
ProcessMatchFromBA(t0, id, o, min_landmarks) ==
    LET t1 == IF t0.lm > 0 THEN [ t0 EXCEPT !.poses = AppendKey(@, id) ] ELSE t0
        t2 == IF Len(t1.poses) = 1 /\ min_landmarks # 0 /\ t1.lm < min_landmarks
              THEN [ t1 EXCEPT !.active = FALSE ] ELSE t1
        t3 == IF t2.too_far THEN [ t2 EXCEPT !.active = FALSE ] ELSE t2
        t4 == IF t3.lm > 0 THEN RecordFrame(t3, id) ELSE t3
    IN  IF t4.lm > 0 /\ Len(t4.poses) > 1 /\ o.behind
        THEN [ t4 EXCEPT !.active = FALSE ]
        ELSE t4

\* _process_match: ret is the returned track, obj the state of the object that
\* was passed in (the same object unless the bundle adjustment ran).
ProcessMatch(track, id, o, run_ba, min_landmarks) ==
    LET t == ProcessMatchToBA(track, o)
    IN  IF RunsBA(track, o, run_ba)
        THEN [ ret |-> ProcessMatchFromBA(ObjectBundleAdjustment(t), id, o, min_landmarks),
               obj |-> t ]
        ELSE LET r == ProcessMatchFromBA(t, id, o, min_landmarks)
             IN  [ ret |-> r, obj |-> r ]

\* ---- _improve_association ------------------------------------------------
\* A detection: class, external track id, and whether a stereo point of it
\* could be triangulated (its median is not None).
Detections == [ cls : Classes, track_id : 1..MaxExtId, median : BOOLEAN ]

NoTrack == -1

TrackMatch(t, d) == [ track_id |-> t, detection_id |-> d ]

Fresh(n) == UuidBase + n + 1

\* track_id_mapping is a dict kept as the sequence of its items <<key, value>>.
MapKeys(mapping) == { mapping[i][1] : i \in 1..Len(mapping) }

\* mapping.get(k, k)
MapGet(mapping, k) ==
    IF k \in MapKeys(mapping)
    THEN mapping[CHOOSE i \in 1..Len(mapping) : mapping[i][1] = k][2]
    ELSE k

\* mapping[k] = v
MapPut(mapping, k, v) ==
    IF k \in MapKeys(mapping)
    THEN [ i \in 1..Len(mapping) |-> IF mapping[i][1] = k THEN << k, v >> ELSE mapping[i] ]
    ELSE Append(mapping, << k, v >>)

\* tracks[k] = v on a function
Put(f, k, v) == [ x \in DOMAIN f \cup {k} |-> IF x = k THEN v ELSE f[x] ]

\* The sets of pairs <<detection, track>> that use no detection and no track twice.
IsMatching(M) ==
    \A p \in M : \A q \in M : (p[1] = q[1] \/ p[2] = q[2]) => p = q

Matchings(E) == { M \in SUBSET E : IsMatching(M) }

\* The pairs of a matching in the order of their detections (the rows of
\* linear_sum_assignment come sorted).
RECURSIVE InRowOrder(_)
InRowOrder(M) ==
    IF M = {} THEN << >>
    ELSE LET p == CHOOSE x \in M : \A y \in M : x[1] <= y[1]
         IN  << p >> \o InRowOrder(M \ {p})

\* track_id_mapping after the accepted pairs of an assignment
RECURSIVE MapAfterMatches(_, _, _)
MapAfterMatches(mapping, pairs, dets) ==
    IF pairs = << >> THEN mapping
    ELSE LET d == pairs[1][1]
             t == pairs[1][2]
             m == IF t = dets[d].track_id THEN mapping
                  ELSE MapPut(mapping, dets[d].track_id, t)
         IN  MapAfterMatches(m, Tail(pairs), dets)

\* The local variable `track` after the first assignment loop: the track of
\* the last pair linear_sum_assignment returns. A pair of cost 0 can hold any
\* of the tracks that the pairs of positive cost leave free.
StaleAfterStageA(M, ndet, ids) ==
    LET free == ids \ { p[2] : p \in M }
        rows == { p[1] : p \in M }
        lastrow == MaxOf(rows, 0)
        ofLast == { p[2] : p \in { q \in M : q[1] = lastrow } }
    IN  IF ndet <= Cardinality(ids)
        THEN IF ndet \in rows THEN ofLast ELSE free
        ELSE ofLast \cup (IF lastrow < ndet THEN free ELSE {})

\* The tracks whose is_in_view test Stage A reaches: those with a detection of
\* their class that has stereo points.
InViewTested(dets, ids, tracks) ==
    { t \in ids : \E d \in 1..Len(dets) : dets[d].cls = tracks[t].cls /\ dets[d].median }

\* Stage A (PnP and appearance). geom[t]: is_in_view holds of track t's
\* landmarks under the predicted pose.
StageAResults(dets, order, tracks, mapping) ==
    LET ids == Range(order)
        D == 1..Len(dets)
    IN  IF D = {} \/ ids = {}
        THEN { [ raised |-> FALSE, in_view |-> [ t \in ids |-> tracks[t].in_view ],
                 not_in_view |-> {}, pairs |-> << >>, stale |-> NoTrack,
                 mapping |-> mapping ] }
        ELSE IF \E t \in ids : MedianTranslationRaises(tracks[t])
        THEN { [ raised |-> TRUE ] }
        ELSE LET checked == InViewTested(dets, ids, tracks)
             IN  UNION { LET seen == [ t \in ids |->
                                 IF t \in checked THEN geom[t] /\ tracks[t].lm >= 1
                                 ELSE tracks[t].in_view ]
                             hidden == { t \in checked : ~seen[t] }
                             E == { p \in D \X checked :
                                       /\ dets[p[1]].cls = tracks[p[2]].cls
                                       /\ dets[p[1]].median
                                       /\ seen[p[2]] }
                         IN  { [ raised |-> FALSE, in_view |-> seen,
                                 not_in_view |-> hidden \cup { MapGet(mapping, t) : t \in hidden },
                                 pairs |-> InRowOrder(M), stale |-> s,
                                 mapping |-> MapAfterMatches(mapping, InRowOrder(M), dets) ]
                               : <<M, s>> \in
                                   { ms \in Matchings(E) \X ids :
                                       ms[2] \in StaleAfterStageA(ms[1], Len(dets), ids) } }
                       : geom \in [ checked -> BOOLEAN ] }

\* A set of small integers in the order Python iterates it
RECURSIVE Ascending(_)
Ascending(S) ==
    IF S = {} THEN << >>
    ELSE LET x == CHOOSE y \in S : \A z \in S : y <= z
         IN  << x >> \o Ascending(S \ {x})

\* The orders in which a set of track ids (among them uuid values) can be iterated
Orders(S) ==
    { s \in [ 1..Cardinality(S) -> S ] : \A i, j \in DOMAIN s : s[i] = s[j] => i = j }

\* Stage B, one unmatched detection d. a: matches, matched_tracks,
\* matched_detections, mapping, uuid, raised.
StageBFresh(a, d, tid) ==
    LET new == Fresh(a.uuid)
    IN  [ a EXCEPT !.mapping = MapPut(@, tid, new),
                   !.uuid = @ + 1,
                   !.matched_detections = @ \cup {d},
                   !.matches = Append(@, TrackMatch(new, d)) ]

\* History of a match made by the distance test of Stage B: the detection,
\* the track it was matched to, and the track whose class, latest location,
\* badly_tracked_frames, dist_from_cam and poses went into the test (the
\* local variable `track`, which Stage B never assigns).
Corroboration(d, tid, track) == [ detection_id |-> d, track_id |-> tid, track |-> track ]

\* Variant: the distance branch does not look at the median of the detection.
StageBOne_AnyMedian(a, d, dets, ids, tracks, all_track_ids, not_in_view, stale) ==
    LET tid == MapGet(a.mapping, dets[d].track_id)
    IN  IF a.raised THEN {a}
        ELSE IF tid \in a.matched_tracks THEN { StageBFresh(a, d, tid) }
        ELSE IF tid \in not_in_view THEN { StageBFresh(a, d, tid) }
        ELSE IF tid \notin all_track_ids \cup a.matched_tracks
        THEN { [ a EXCEPT !.matched_detections = @ \cup {d},
                          !.matches = Append(@, TrackMatch(tid, d)) ] }
        ELSE IF tid \notin ids THEN { StageBFresh(a, d, tid) }
        ELSE IF tracks[stale].cls # dets[d].cls THEN {a}
        ELSE IF tracks[stale].locations = << >> THEN { [ a EXCEPT !.raised = TRUE ] }
        ELSE { a,
               [ a EXCEPT !.matched_detections = @ \cup {d},
                          !.matched_tracks = @ \cup {tid},
                          !.matches = Append(@, TrackMatch(tid, d)),
                          !.corroborated = @ \cup { Corroboration(d, tid, stale) } ] }

\* Stage B for the detection d: the branches of the loop body.
StageBOne(a, d, dets, ids, tracks, all_track_ids, not_in_view, stale) ==
    LET tid == MapGet(a.mapping, dets[d].track_id)
    IN  IF a.raised THEN {a}
        ELSE IF tid \in a.matched_tracks THEN { StageBFresh(a, d, tid) }
        ELSE IF tid \in not_in_view THEN { StageBFresh(a, d, tid) }
        ELSE IF tid \notin all_track_ids \cup a.matched_tracks
        THEN { [ a EXCEPT !.matched_detections = @ \cup {d},
                          !.matches = Append(@, TrackMatch(tid, d)) ] }
        ELSE IF tid \notin ids THEN { StageBFresh(a, d, tid) }
        ELSE IF tracks[stale].cls # dets[d].cls THEN {a}
        ELSE IF ~dets[d].median THEN {a}
        ELSE IF tracks[stale].locations = << >> THEN { [ a EXCEPT !.raised = TRUE ] }
        ELSE { a,
               [ a EXCEPT !.matched_detections = @ \cup {d},
                          !.matched_tracks = @ \cup {tid},
                          !.matches = Append(@, TrackMatch(tid, d)),
                          !.corroborated = @ \cup { Corroboration(d, tid, stale) } ] }

RECURSIVE StageBFrom(_, _, _, _, _, _, _, _)
StageBFrom(a, ds, dets, ids, tracks, all_track_ids, not_in_view, stale) ==
    IF ds = << >> THEN {a}
    ELSE UNION { StageBFrom(b, Tail(ds), dets, ids, tracks, all_track_ids, not_in_view, stale)
                 : b \in StageBOne(a, Head(ds), dets, ids, tracks, all_track_ids,
                                   not_in_view, stale) }

\* Stage C, the loops that fill the cost matrix. ps: the pairs still to visit;
\* c: the pairs that reached the distance test, the local `track`, raised.
RECURSIVE StageCScan(_, _, _, _, _)
StageCScan(c, ps, dets, tracks, not_in_view) ==
    IF ps = << >> \/ c.raised THEN c
    ELSE LET d == ps[1][1]
             t == ps[1][2]
             rest == Tail(ps)
         IN  IF t \in not_in_view THEN StageCScan(c, rest, dets, tracks, not_in_view)
             ELSE IF tracks[c.stale].cls # dets[d].cls
             THEN StageCScan(c, rest, dets, tracks, not_in_view)
             ELSE IF ~dets[d].median
             THEN StageCScan([ c EXCEPT !.stale = t ], rest, dets, tracks, not_in_view)
             ELSE IF tracks[t].locations = << >>
             THEN [ c EXCEPT !.stale = t, !.raised = TRUE ]
             ELSE StageCScan([ c EXCEPT !.stale = t, !.E = @ \cup { <<d, t>> } ],
                             rest, dets, tracks, not_in_view)

\* every detection of ds, in order, against every track of ts, in order
RECURSIVE PairsOf(_, _)
PairsOf(ds, ts) ==
    IF ds = << >> THEN << >>
    ELSE [ i \in 1..Len(ts) |-> << Head(ds), ts[i] >> ] \o PairsOf(Tail(ds), ts)

RECURSIVE AppendMatches(_, _)
AppendMatches(matches, pairs) ==
    IF pairs = << >> THEN matches
    ELSE AppendMatches(Append(matches, TrackMatch(pairs[1][2], pairs[1][1])), Tail(pairs))

StageCResults(a, dets, ids, tracks, not_in_view, stale) ==
    LET UD == (1..Len(dets)) \ a.matched_detections
        UT == ids \ a.matched_tracks
    IN  IF a.raised \/ UD = {} \/ UT = {} THEN {a}
        ELSE UNION {
               LET c == StageCScan([ E |-> {}, stale |-> stale, raised |-> FALSE ],
                                   PairsOf(Ascending(UD), ts), dets, tracks, not_in_view)
               IN  IF c.raised THEN { [ a EXCEPT !.raised = TRUE ] }
                   ELSE { [ a EXCEPT
                              !.mapping = MapAfterMatches(@, InRowOrder(M), dets),
                              !.matches = AppendMatches(@, InRowOrder(M)),
                              !.matched_tracks = @ \cup { p[2] : p \in M },
                              !.matched_detections = @ \cup { p[1] : p \in M } ]
                          : M \in Matchings(c.E) }
               : ts \in Orders(UT) }

\* TRUST_2D == "no": a new track for every detection still unmatched
RECURSIVE NewTrackMatches(_, _, _)
NewTrackMatches(matches, ds, track_id) ==
    IF ds = << >> THEN matches
    ELSE NewTrackMatches(Append(matches, TrackMatch(track_id + 1, Head(ds))),
                         Tail(ds), track_id + 1)

StageNew(a, dets, all_track_ids, trust) ==
    IF a.raised \/ trust # "no" THEN a
    ELSE LET UD == (1..Len(dets)) \ a.matched_detections
         IN  [ a EXCEPT !.matches = NewTrackMatches(@, Ascending(UD),
                                                   MaxOf(all_track_ids, 0) + 1),
                        !.matched_detections = @ \cup UD ]

\* _improve_association: the results it can return (or raised) for the frame.
ImproveAssociation(dets, order, tracks, all_track_ids, mapping, uuid, trust) ==
    LET ids == Range(order)
    IN  UNION {
          IF ra.raised THEN { [ raised |-> TRUE ] }
          ELSE LET a0 == [ raised |-> FALSE,
                           matches |-> AppendMatches(<< >>, ra.pairs),
                           matched_tracks |-> { ra.pairs[i][2] : i \in 1..Len(ra.pairs) },
                           matched_detections |-> { ra.pairs[i][1] : i \in 1..Len(ra.pairs) },
                           mapping |-> ra.mapping,
                           uuid |-> uuid,
                           corroborated |-> {} ]
                   afterB == IF trust = "no" THEN {a0}
                             ELSE StageBFrom(a0,
                                     Ascending((1..Len(dets)) \ a0.matched_detections),
                                     dets, ids, tracks, all_track_ids, ra.not_in_view,
                                     ra.stale)
                   afterC == UNION { StageCResults(b, dets, ids, tracks, ra.not_in_view,
                                                   ra.stale) : b \in afterB }
               IN  { LET n == StageNew(c, dets, all_track_ids, trust)
                     IN  IF n.raised THEN [ raised |-> TRUE ]
                         ELSE [ raised |-> FALSE, matches |-> n.matches,
                                unmatched_tracks |-> ids \ n.matched_tracks,
                                in_view |-> ra.in_view, mapping |-> n.mapping,
                                uuid |-> n.uuid, corroborated |-> n.corroborated ]
                     : c \in afterC }
          : ra \in StageAResults(dets, order, tracks, mapping) }

\* TRUST_2D == "yes": the external ids are the matches
RECURSIVE TrustedMatches(_, _)
TrustedMatches(dets, i) ==
    IF i > Len(dets) THEN << >>
    ELSE << TrackMatch(dets[i].track_id, i) >> \o TrustedMatches(dets, i + 1)

Association(dets, order, tracks, all_track_ids, mapping, uuid, trust) ==
    IF trust = "yes"
    THEN { [ raised |-> FALSE, matches |-> TrustedMatches(dets, 1),
             unmatched_tracks |-> Range(order) \ { dets[i].track_id : i \in 1..Len(dets) },
             in_view |-> [ t \in Range(order) |-> tracks[t].in_view ],
             mapping |-> mapping, uuid |-> uuid, corroborated |-> {} ] }
    ELSE ImproveAssociation(dets, order, tracks, all_track_ids, mapping, uuid, trust)

\* ---- step ----------------------------------------------------------------
\* The loop over the matches that adds the tracks of new ids and sets the masks.
RECURSIVE AddMatchedTracks(_, _, _, _)
AddMatchedTracks(st, ms, dets, img) ==
    IF ms = << >> THEN st
    ELSE LET t == ms[1].track_id
             d == ms[1].detection_id
         IN  IF t \notin DOMAIN st.tracks
             THEN AddMatchedTracks([ tracks |-> Put(st.tracks, t, NewTrack(dets[d].cls, img)),
                                     order |-> Append(st.order, t) ],
                                   Tail(ms), dets, img)
             ELSE AddMatchedTracks([ st EXCEPT !.tracks[t].masks = TRUE ],
                                   Tail(ms), dets, img)

\* The process-match tasks, run one after the other on the track objects.
\* w: obj (the objects), ret (the last track returned per id), ba (the ids
\* the bundle adjustment ran for), raised.
RECURSIVE RunMatchTasks(_, _, _, _, _)
RunMatchTasks(w, ms, img, tracks_to_run_ba, min_landmarks) ==
    IF ms = << >> \/ w.raised THEN {w}
    ELSE LET t == ms[1].track_id
             track == w.obj[t]
             run_ba == t \in tracks_to_run_ba
         IN  IF MedianTranslationRaises(track) THEN { [ w EXCEPT !.raised = TRUE ] }
             ELSE UNION {
                    LET pm == ProcessMatch(track, img, o, run_ba, min_landmarks)
                    IN  RunMatchTasks([ w EXCEPT !.obj[t] = pm.obj,
                                                 !.ret = Put(@, t, pm.ret),
                                                 !.ba = IF RunsBA(track, o, run_ba)
                                                        THEN @ \cup {t} ELSE @ ],
                                      Tail(ms), img, tracks_to_run_ba, min_landmarks)
                    : o \in { x \in Outcomes : OutcomeFits(track, x) } }

\* Variant: without the test against the number of poses.
IsOld_WithoutRatio(track) ==
    \/ ~track.active
    \/ track.badly_tracked_frames > KEEP_TRACK_FOR_N_FRAMES_AFTER_LOST

\* The test of step's last loop
IsOld(track) ==
    \/ ~track.active
    \/ track.badly_tracked_frames > KEEP_TRACK_FOR_N_FRAMES_AFTER_LOST
    \/ 4 * track.badly_tracked_frames > 3 * Len(track.poses)

\* step: the results it can return (or raised) for the frame.
\* behind[t]: the depth test of constant motion for the unmatched track t.
Step(dets, order, tracks, img, tracks_to_run_ba, all_track_ids, mapping, uuid, trust, min_landmarks) ==
    UNION {
      IF as.raised THEN { [ raised |-> TRUE ] }
      ELSE LET seen == [ t \in DOMAIN tracks |-> [ tracks[t] EXCEPT !.in_view = as.in_view[t] ] ]
               st == AddMatchedTracks([ tracks |-> seen, order |-> order ],
                                      as.matches, dets, img)
               moving == { t \in as.unmatched_tracks : st.tracks[t].lm > 0 }
           IN  UNION {
                 LET objs == [ t \in DOMAIN st.tracks |->
                                 IF t \in as.unmatched_tracks
                                 THEN AddConstantMotion(
                                        [ st.tracks[t] EXCEPT !.badly_tracked_frames = @ + 1 ],
                                        img, t \in behind)
                                 ELSE st.tracks[t] ]
                 IN  { IF w.raised THEN [ raised |-> TRUE ]
                       ELSE LET out == [ t \in DOMAIN objs |->
                                           IF t \in DOMAIN w.ret THEN w.ret[t] ELSE objs[t] ]
                            IN  [ raised |-> FALSE, tracks |-> out, order |-> st.order,
                                  old_tracks |-> { t \in DOMAIN out : IsOld(out[t]) },
                                  matches |-> as.matches, mapping |-> as.mapping,
                                  uuid |-> as.uuid, ba |-> w.ba,
                                  corroborated |-> as.corroborated ]
                       : w \in RunMatchTasks([ obj |-> objs, ret |-> << >>, ba |-> {},
                                               raised |-> FALSE ],
                                             as.matches, img, tracks_to_run_ba,
                                             min_landmarks) }
                 : behind \in SUBSET moving }
      : as \in Association(dets, order, tracks, all_track_ids, mapping, uuid, trust) }

\* ---- pose estimation ------------------------------------------------------
\* A pose is a rotation and a translation along one axis; the translation is
\* the fraction num / den, as the prediction divides by the number of frames.
Rotations == { "R0", "R1" }

Pose(rot, num, den) == [ rot |-> rot, num |-> num, den |-> den ]

\* Variant: three correspondences are enough, and the ratio may equal 0.25.
LocalizeObject_Lenient(num_matches, ransac, num_inliers, refined) ==
    IF num_matches < 3
    THEN [ pose |-> "T_cam_obj", successful |-> FALSE, inlier_ratio |-> << 0, 1 >> ]
    ELSE IF ransac /\ 4 * num_inliers >= num_matches /\ refined
    THEN [ pose |-> "optimized_pose", successful |-> TRUE,
           inlier_ratio |-> << num_inliers, num_matches >> ]
    ELSE [ pose |-> "T_cam_obj", successful |-> FALSE, inlier_ratio |-> << 0, 1 >> ]

\* _localize_object on num_matches correspondences, where solvePnPRansac
\* returns ransac with num_inliers inliers and solvePnP returns refined.
\* inlier_ratio > 0.25 is num_inliers / num_matches > 1 / 4.
LocalizeObject(num_matches, ransac, num_inliers, refined) ==
    IF num_matches < 4
    THEN [ pose |-> "T_cam_obj", successful |-> FALSE, inlier_ratio |-> << 0, 1 >> ]
    ELSE IF ransac /\ 4 * num_inliers > num_matches /\ refined
    THEN [ pose |-> "optimized_pose", successful |-> TRUE,
           inlier_ratio |-> << num_inliers, num_matches >> ]
    ELSE [ pose |-> "T_cam_obj", successful |-> FALSE, inlier_ratio |-> << 0, 1 >> ]

\* _estimate_next_pose on the poses of a track, oldest first.
EstimateNextPose(poses) ==
    IF Len(poses) >= 2
    THEN LET num_frames == Min(SLIDING_WINDOW_BA, Len(poses))
             T_world_obj1 == poses[Len(poses)]
             T_world_obj0 == poses[Len(poses) - num_frames + 1]
         IN  Pose(T_world_obj1.rot,
                  T_world_obj1.num * num_frames + (T_world_obj1.num - T_world_obj0.num),
                  num_frames)
    ELSE poses[Len(poses)]

\* The pose _process_match adopts for the frame: T_cam_obj starts as the
\* prediction and is replaced by the PnP pose in one place only.
AdoptedPose(num_matches, cached, ransac, num_inliers, refined, num_poses, valid_motion) ==
    LET enough_track_matches == num_matches >= 5
        successful ==
            IF cached THEN TRUE
            ELSE LocalizeObject(num_matches, ransac, num_inliers, refined).successful
    IN  IF enough_track_matches /\ successful /\ num_poses >= 2 /\ valid_motion
        THEN "T_cam_obj_pnp"
        ELSE "prediction"

\* np.median of a non-empty list of numbers, as the fraction << num, den >>
RECURSIVE SortedSeq(_)
SortedSeq(s) ==
    IF s = << >> THEN << >>
    ELSE LET i == CHOOSE k \in 1..Len(s) : \A l \in 1..Len(s) : s[k] <= s[l]
         IN  << s[i] >> \o SortedSeq([ k \in 1..(Len(s) - 1) |-> IF k < i THEN s[k] ELSE s[k + 1] ])

Median(s) ==
    LET sorted == SortedSeq(s)
        n == Len(s)
    IN  IF n % 2 = 1 THEN << sorted[(n + 1) \div 2], 1 >>
        ELSE << sorted[n \div 2] + sorted[(n \div 2) + 1], 2 >>

Norm(x) == IF x < 0 THEN -x ELSE x

\* get_median_translation on the locations of the frames of track.poses,
\* oldest first: the loop runs len(frames[-2W:]) - 1 times over frames[i],
\* frames[i + 1], with i counted from the first frame.
GetMedianTranslation(locations) ==
    LET n == Min(Len(locations), 2 * SLIDING_WINDOW_BA) - 1
        translations == [ i \in 1..n |-> Norm(locations[i] - locations[i + 1]) ]
    IN  IF n < 1 THEN "None" ELSE Median(translations)

\* T_world_obj_prev, the pose the relative transform of the gate is taken
\* against, as the position of its key in track.poses (0: the gate is not
\* evaluated). Stage A reads list(track.poses)[-1]; _process_match reads
\* list(track.poses.keys())[-2] when the track has at least 2 poses. In both
\* places the pose of the current frame is not yet in track.poses.
PrevPoseStageA(poses) == Len(poses)

PrevPoseProcessMatch(poses) == IF Len(poses) >= 2 THEN Len(poses) - 1 ELSE 0

\* ---- run -----------------------------------------------------------------
\* Variant: always the first slot.
LowestLoad_First(slots) == 1

\* The BA slots of a frame: every active id goes to the slot of lowest load
\* (the first such slot: sorted() is stable).
LowestLoad(slots) ==
    CHOOSE i \in 1..Len(slots) :
        \A j \in 1..Len(slots) :
            \/ Cardinality(slots[i]) < Cardinality(slots[j])
            \/ (Cardinality(slots[i]) = Cardinality(slots[j]) /\ i <= j)

RECURSIVE FillSlots(_, _)
FillSlots(slots, ids) ==
    IF ids = << >> THEN slots
    ELSE FillSlots([ slots EXCEPT ![LowestLoad(slots)] = @ \cup { Head(ids) } ], Tail(ids))

\* Variant: every slot holds every active id.
BASlots_All(order) == [ i \in 1..BA_EVERY_N_STEPS |-> Range(order) ]

BASlots(order) == FillSlots([ i \in 1..BA_EVERY_N_STEPS |-> {} ], order)

\* Variant: the first slot is taken in every frame.
TracksToRunBA_FirstSlot(order, img) == BASlots(order)[1]

TracksToRunBA(order, img) == BASlots(order)[(img % BA_EVERY_N_STEPS) + 1]

\* del track_id_mapping[inverse[track_id]]: the inverse keeps, of the keys
\* that map to track_id, the one inserted last.
DropMapped(mapping, track_id) ==
    LET hits == { i \in 1..Len(mapping) : mapping[i][2] = track_id }
    IN  IF hits = {} THEN mapping
        ELSE LET k == MaxOf(hits, 0)
             IN  [ i \in 1..(Len(mapping) - 1) |->
                     IF i < k THEN mapping[i] ELSE mapping[i + 1] ]

RECURSIVE DropAllMapped(_, _)
DropAllMapped(mapping, olds) ==
    IF olds = << >> THEN mapping
    ELSE DropAllMapped(DropMapped(mapping, Head(olds)), Tail(olds))

\* The old tracks the graveyard takes: those not deemed false positives at once.
\* Variant: every old track is stored.
Stored_All(old_tracks, tracks) == old_tracks

Stored(old_tracks, tracks) == { t \in old_tracks : Len(tracks[t].poses) > 1 }

\* The tracks the writers are given: those with a left mask and landmarks
Writable(tracks) == { t \in DOMAIN tracks : tracks[t].masks /\ tracks[t].lm > 0 }

\* The queue keeps, of a frame record, the img_id and the ids of object_tracks;
\* the tracks of the record put last are kept in last.object_tracks.
FrameRecord(id, tracks) == [ kind |-> "frame", img_id |-> id, track_ids |-> DOMAIN tracks ]

\* Variant: a frame without active tracks is not published.
Publish_Tracked(queue, id, tracks) ==
    IF DOMAIN tracks = {} THEN queue ELSE Append(queue, FrameRecord(id, tracks))

\* shared_data.put of the frame
Publish(queue, id, tracks) == Append(queue, FrameRecord(id, tracks))

WriterRecord(id, tracks) == [ kind |-> "frame", img_id |-> id, track_ids |-> Writable(tracks) ]

Sentinel == [ kind |-> "sentinel" ]

NoFrame == [ raised |-> FALSE, matches |-> << >>, removed |-> << >>, ba |-> {},
             object_tracks |-> << >>, track_ids |-> << >>, detections |-> << >>,
             corroborated |-> {} ]

\* _compute_estimated_trajectories and the class mapping of the result
TrajectoryResult(tracks) ==
    [ trajectories |->
        [ t \in DOMAIN tracks |->
            [ offline |-> Range(tracks[t].poses) \cap tracks[t].pcl_centers,
              online |-> Range(tracks[t].locations) ] ],
      track_id_to_class_mapping |-> [ t \in DOMAIN tracks |-> tracks[t].cls ] ]

\* No function is called on its own, or the call has not returned.
NoCall == [ fn |-> "none" ]

\* The state when run is called, for one of the given values of
\* continuous_until_img_id.
RunInit(continuous, trust, min_landmarks, lengths) ==
    /\ TRUST_2D \in trust
    /\ MIN_LANDMARKS \in min_landmarks
    /\ continuous_until_img_id \in continuous
    /\ nframes \in lengths
    /\ pc = "top"
    /\ frame = 0
    /\ img_id = -1
    /\ active_object_tracks = << >>
    /\ active_order = << >>
    /\ all_object_tracks = << >>
    /\ track_id_mapping = << >>
    /\ all_poses_bound = FALSE
    /\ all_poses = 0
    /\ uuid_count = 0
    /\ stop_flag = FALSE
    /\ next_step = TRUE
    /\ stop_requested = FALSE
    /\ slam_put = 0
    /\ slam_taken = 0
    /\ shared_data = << >>
    /\ consumed = 0
    /\ consumer_pc = "check"
    /\ writer_data_2d = << >>
    /\ writer_data_3d = << >>
    /\ writer_obb_data = << >>
    /\ returned_data = << >>
    /\ discarded = {}
    /\ ba_log = << >>
    /\ last = NoFrame
    /\ seen_detection = FALSE

InitOf(continuous, trust, min_landmarks, lengths) ==
    /\ RunInit(continuous, trust, min_landmarks, lengths)
    /\ call = NoCall
    /\ result = NoCall

Init == InitOf({-1}, Trust2DValues, MinLandmarksValues, 0..MaxFrames)

config_vars == << TRUST_2D, MIN_LANDMARKS, continuous_until_img_id, nframes >>
track_vars == << active_object_tracks, active_order, all_object_tracks,
                track_id_mapping, uuid_count, discarded, ba_log, call, result, last,
                seen_detection >>
queue_vars == << shared_data, writer_data_2d, writer_data_3d, writer_obb_data,
                returned_data >>
consumer_vars == << consumed, consumer_pc >>
slam_vars == << slam_put, slam_taken, all_poses >>

\* Variant: the flag is not read.
StopSeen_Never == FALSE

\* if stop_flag.is_set(): break
StopSeen == stop_flag

\* The head of the frame loop: the next image is drawn (the image stream
\* sets stop_flag when it has no more), stop_flag is tested, and in
\* continuous frames next_step is cleared.
LoopTop ==
    /\ pc = "top"
    /\ IF frame = nframes
       THEN /\ pc' = "shutdown"
            /\ stop_flag' = TRUE
            /\ UNCHANGED << frame, img_id, next_step >>
       ELSE /\ frame' = frame + 1
            /\ img_id' = frame
            /\ UNCHANGED stop_flag
            /\ IF StopSeen
               THEN pc' = "shutdown" /\ UNCHANGED next_step
               ELSE IF frame > continuous_until_img_id /\ continuous_until_img_id # -1
               THEN pc' = "wait_next" /\ UNCHANGED next_step
               ELSE pc' = "wait_pose" /\ next_step' = FALSE
    /\ UNCHANGED << config_vars, track_vars, queue_vars, consumer_vars, slam_vars,
                    all_poses_bound, stop_requested >>

\* Variant: the frame goes on whether next_step is set or not.
WaitNextStep_NoWait ==
    /\ pc = "wait_next"
    /\ next_step' = FALSE
    /\ pc' = "wait_pose"
    /\ UNCHANGED << config_vars, track_vars, queue_vars, consumer_vars, slam_vars,
                    all_poses_bound, stop_requested, stop_flag, frame, img_id >>

\* while not next_step.is_set(): sleep; next_step.clear()
WaitNextStep ==
    /\ pc = "wait_next"
    /\ next_step
    /\ next_step' = FALSE
    /\ pc' = "wait_pose"
    /\ UNCHANGED << config_vars, track_vars, queue_vars, consumer_vars, slam_vars,
                    all_poses_bound, stop_requested, stop_flag, frame, img_id >>

\* Variant: the loop goes on with the next frame.
RaisedFrame_Continues ==
    /\ pc' = "top"
    /\ last' = [ last EXCEPT !.raised = TRUE ]
    /\ UNCHANGED << active_object_tracks, active_order, all_object_tracks,
                    track_id_mapping, uuid_count, discarded, ba_log, shared_data,
                    writer_data_2d, writer_data_3d, writer_obb_data >>

\* except Exception: break. step worked on a deep copy of the active tracks.
RaisedFrame ==
    /\ pc' = "shutdown"
    /\ last' = [ last EXCEPT !.raised = TRUE ]
    /\ UNCHANGED << active_object_tracks, active_order, all_object_tracks,
                    track_id_mapping, uuid_count, discarded, ba_log, shared_data,
                    writer_data_2d, writer_data_3d, writer_obb_data >>

\* Variant: the provider lags one pose behind.
PosesIn_Lagging(k) == k - 1

\* _fake_slam: the k-th message holds the poses of the first k frames.
PosesIn(k) == k

\* The rest of the loop body, from the take of the ego poses to the writers.
\* current_pose = all_poses[img_id] is outside the try: an IndexError ends run.
ProcessFrameFrom(max_det, D) ==
    /\ pc = "wait_pose"
    /\ slam_taken < slam_put
    /\ slam_taken' = slam_taken + 1
    /\ all_poses_bound' = TRUE
    /\ all_poses' = PosesIn(slam_taken + 1)
    /\ \E n \in 0..max_det : \E new_detections \in [ 1..n -> D ] :
         \E r \in Step(new_detections, active_order, active_object_tracks, img_id,
                        TracksToRunBA(active_order, img_id),
                        DOMAIN all_object_tracks \cup DOMAIN active_object_tracks,
                        track_id_mapping, uuid_count, TRUST_2D, MIN_LANDMARKS) :
           IF img_id >= all_poses'
           THEN /\ pc' = "crashed"
                /\ UNCHANGED << track_vars, shared_data, writer_data_2d, writer_data_3d,
                                writer_obb_data >>
           ELSE IF r.raised
           THEN /\ RaisedFrame
                /\ seen_detection' = (seen_detection \/ n > 0)
           ELSE LET kept == DOMAIN r.tracks \ r.old_tracks
                    tracks == [ t \in kept |-> r.tracks[t] ]
                    stored == Stored(r.old_tracks, r.tracks)
                IN  /\ pc' = "top"
                    /\ active_object_tracks' = tracks
                    /\ active_order' = RemoveKeys(r.order, r.old_tracks)
                    /\ all_object_tracks' =
                         [ t \in DOMAIN all_object_tracks \cup stored |->
                             IF t \in stored THEN r.tracks[t] ELSE all_object_tracks[t] ]
                    /\ track_id_mapping' = DropAllMapped(r.mapping, Ascending(r.old_tracks))
                    /\ uuid_count' = r.uuid
                    /\ shared_data' = Publish(shared_data, img_id, tracks)
                    /\ ba_log' = Append(ba_log,
                                        [ order |-> active_order,
                                          slots |-> BASlots(active_order),
                                          to_run_ba |-> TracksToRunBA(active_order, img_id) ])
                    /\ discarded' = discarded \cup
                         { << t, r.tracks[t].poses[1] >> : t \in r.old_tracks \ stored }
                    /\ writer_data_2d' = Append(writer_data_2d, WriterRecord(img_id, tracks))
                    /\ writer_data_3d' = Append(writer_data_3d, WriterRecord(img_id, tracks))
                    /\ writer_obb_data' = Append(writer_obb_data, WriterRecord(img_id, tracks))
                    /\ last' = [ raised |-> FALSE, matches |-> r.matches,
                                 removed |-> [ t \in r.old_tracks |-> r.tracks[t] ],
                                 ba |-> r.ba, object_tracks |-> tracks,
                                 track_ids |-> [ i \in 1..n |-> new_detections[i].track_id ],
                                 detections |-> new_detections,
                                 corroborated |-> r.corroborated ]
                    /\ seen_detection' = (seen_detection \/ n > 0)
    /\ UNCHANGED << config_vars, consumer_vars, slam_put, returned_data, stop_flag,
                    next_step, stop_requested, frame, img_id, call, result >>

\* The frames carry up to max_det detections of any kind.
ProcessFrameOf(max_det) == ProcessFrameFrom(max_det, Detections)

ProcessFrame == ProcessFrameOf(MaxDet)

\* After the loop: stop_flag, the sentinels, the merge of the active tracks
\* into the graveyard, the optional full BA and the result. full_ba is
\* config.FINAL_FULL_BA, which is read here only.
Shutdown ==
    /\ pc = "shutdown"
    /\ stop_flag' = TRUE
    /\ shared_data' = Append(shared_data, Sentinel)
    /\ writer_data_2d' = Append(writer_data_2d, Sentinel)
    /\ writer_data_3d' = Append(writer_data_3d, Sentinel)
    /\ writer_obb_data' = Append(writer_obb_data, Sentinel)
    /\ all_object_tracks' =
         [ t \in DOMAIN all_object_tracks \cup DOMAIN active_object_tracks |->
             IF t \in DOMAIN active_object_tracks THEN active_object_tracks[t]
             ELSE all_object_tracks[t] ]
    /\ \E full_ba \in BOOLEAN :
         IF \/ full_ba /\ \E t \in DOMAIN all_object_tracks' :
                              MedianTranslationRaises(all_object_tracks'[t])
            \/ ~all_poses_bound
         THEN pc' = "crashed" /\ UNCHANGED returned_data
         ELSE /\ pc' = "done"
              /\ returned_data' = Append(returned_data, TrajectoryResult(all_object_tracks'))
    /\ UNCHANGED << config_vars, consumer_vars, slam_vars, active_object_tracks,
                    active_order, track_id_mapping, uuid_count, discarded, ba_log,
                    call, result, last, seen_detection,
                    all_poses_bound, next_step, stop_requested, frame, img_id >>

\* _fake_slam: one message per ground-truth pose
SlamPut ==
    /\ slam_put < nframes
    /\ slam_put' = slam_put + 1
    /\ UNCHANGED << config_vars, track_vars, queue_vars, consumer_vars, slam_taken,
                    all_poses, all_poses_bound, stop_requested, stop_flag, next_step, pc, frame,
                    img_id >>

\* The consumer of shared_data: while not stop_flag.is_set(): get; next_step.set()
ConsumerCheck ==
    /\ consumer_pc = "check"
    /\ consumer_pc' = IF stop_flag THEN "exit" ELSE "get"
    /\ UNCHANGED << config_vars, track_vars, queue_vars, slam_vars, consumed,
                    all_poses_bound, stop_requested, stop_flag, next_step, pc, frame,
                    img_id >>

ConsumerGet ==
    /\ consumer_pc = "get"
    /\ consumed < Len(shared_data)
    /\ consumed' = consumed + 1
    /\ next_step' = TRUE
    /\ consumer_pc' = "check"
    /\ UNCHANGED << config_vars, track_vars, queue_vars, slam_vars,
                    all_poses_bound, stop_requested, stop_flag, pc, frame, img_id >>

\* stop_flag set by another party (the viewer)
RequestStop ==
    /\ ~stop_flag
    /\ stop_flag' = TRUE
    /\ stop_requested' = TRUE
    /\ UNCHANGED << config_vars, track_vars, queue_vars, consumer_vars, slam_vars,
                    all_poses_bound, next_step, pc, frame, img_id >>

\* The run in continuous mode (continuous_until_img_id = -1), where it never
\* reads next_step: the consumer of shared_data has no effect on it.
Next ==
    \/ LoopTop
    \/ ProcessFrame
    \/ Shutdown
    \/ SlamPut
    \/ RequestStop

Spec == Init /\ [][Next]_vars

\* ---- a longer stream ------------------------------------------------------
\* The same run on a stream one frame longer, with robust initialisation
\* disabled and the external ids trusted: a track created without landmarks
\* makes step raise two frames later, before the stream ends.
InitLong == InitOf({-1}, {"yes"}, {0}, {MaxFrames + 1})

\* With the external ids trusted, step builds the matches from the ids alone:
\* it reads neither the class nor the stereo points of a detection, so the
\* detections of the longer stream are cars with stereo points.
LongFrame == ProcessFrameFrom(MaxDet, { d \in Detections : d.cls = "car" /\ d.median })

NextLong ==
    \/ LoopTop
    \/ LongFrame
    \/ Shutdown
    \/ SlamPut
    \/ RequestStop

SpecLong == InitLong /\ [][NextLong]_vars

\* ---- a stream long enough for bundle adjustment ---------------------------
\* A track has more than 3 poses in its fifth frame at the earliest, and a
\* sixth frame is needed for such a track to meet a frame of the other slot.
\* The stream has MaxFrames + 3 frames, the external ids are trusted, the
\* detections are cars and nobody requests a stop.
InitBA == InitOf({-1}, { "yes" }, { 2 }, { MaxFrames + 3 })

CarDetections == { d \in Detections : d.cls = "car" /\ d.median }

CarFrame == ProcessFrameFrom(MaxDet, CarDetections)

\* Every frame of this stream carries a detection.
BusyCarFrame == CarFrame /\ (pc' = "top" => last'.detections # << >>)

NextBA ==
    \/ LoopTop
    \/ BusyCarFrame
    \/ Shutdown
    \/ SlamPut

SpecBA == InitBA /\ [][NextBA]_vars

\* ---- two detections in a frame ---------------------------------------------
\* A stream of two frames whose second frame carries up to MaxDet + 1
\* detections, with the 2D tracker consulted (TRUST_2D is not "no").
InitPair == InitOf({-1}, { "partial", "yes" }, MinLandmarksValues, { 2 })

PairFrame == ProcessFrameFrom(IF img_id = 0 THEN MaxDet ELSE MaxDet + 1, CarDetections)

NextPair ==
    \/ LoopTop
    \/ PairFrame
    \/ Shutdown
    \/ SlamPut

SpecPair == InitPair /\ [][NextPair]_vars

\* ---- the functions on their own -------------------------------------------
\* One call of _localize_object, of _estimate_next_pose or of the pose choice
\* of _process_match, on any input within the bounds.
LocalizeCalls ==
    { c \in [ fn : { "_localize_object" }, num_matches : 0..MaxMatches, ransac : BOOLEAN,
              num_inliers : 0..MaxMatches, refined : BOOLEAN ] :
          c.num_inliers <= c.num_matches }

TrackPoses ==
    UNION { [ 1..n -> { Pose(r, t, 1) : r \in Rotations, t \in 0..MaxCoord } ] :
            n \in 1..MaxPoses }

EstimateCalls == [ fn : { "_estimate_next_pose" }, poses : TrackPoses ]

ProcessMatchCalls ==
    { c \in [ fn : { "_process_match" }, num_matches : 0..MaxMatches, cached : BOOLEAN,
              ransac : BOOLEAN, num_inliers : 0..MaxMatches, refined : BOOLEAN,
              num_poses : 1..MaxPoses, valid_motion : BOOLEAN ] :
          c.num_inliers <= c.num_matches }

MedianCalls ==
    [ fn : { "get_median_translation" },
      locations : UNION { [ 1..n -> 0..MaxCoord ] : n \in 1..MaxTrackFrames } ]

GateCalls == [ fn : { "T_world_obj_prev" }, poses : TrackPoses ]

InitCalls ==
    /\ RunInit({-1}, { "no" }, { 0 }, { 0 })
    /\ call \in LocalizeCalls \cup EstimateCalls \cup ProcessMatchCalls \cup GateCalls
                \cup MedianCalls
    /\ result = NoCall

run_state ==
    << config_vars, queue_vars, consumer_vars, slam_vars, all_poses_bound,
       stop_requested, stop_flag, next_step, pc, frame, img_id, active_object_tracks,
       active_order, all_object_tracks, track_id_mapping, uuid_count, discarded,
       ba_log, last, seen_detection >>

CallLocalizeObject ==
    /\ call.fn = "_localize_object"
    /\ result = NoCall
    /\ result' = LocalizeObject(call.num_matches, call.ransac, call.num_inliers,
                                call.refined)
    /\ UNCHANGED << run_state, call >>

CallEstimateNextPose ==
    /\ call.fn = "_estimate_next_pose"
    /\ result = NoCall
    /\ result' = EstimateNextPose(call.poses)
    /\ UNCHANGED << run_state, call >>

CallProcessMatch ==
    /\ call.fn = "_process_match"
    /\ result = NoCall
    /\ result' = [ pose |-> AdoptedPose(call.num_matches, call.cached, call.ransac,
                                        call.num_inliers, call.refined, call.num_poses,
                                        call.valid_motion) ]
    /\ UNCHANGED << run_state, call >>

\* The same track of an existing id goes through Stage A and, once matched,
\* through _process_match, in one frame.
CallGateReference ==
    /\ call.fn = "T_world_obj_prev"
    /\ result = NoCall
    /\ result' = [ stage_a |-> PrevPoseStageA(call.poses),
                   process_match |-> PrevPoseProcessMatch(call.poses) ]
    /\ UNCHANGED << run_state, call >>

CallGetMedianTranslation ==
    /\ call.fn = "get_median_translation"
    /\ result = NoCall
    /\ result' = [ median |-> GetMedianTranslation(call.locations) ]
    /\ UNCHANGED << run_state, call >>

NextCalls ==
    \/ CallGetMedianTranslation
    \/ CallLocalizeObject
    \/ CallEstimateNextPose
    \/ CallProcessMatch
    \/ CallGateReference

SpecCalls == InitCalls /\ [][NextCalls]_vars

\* ---- the handshake of the threads ----------------------------------------
\* run with its image stream, the SLAM thread and the consumer of shared_data,
\* in continuous mode and in stepping mode (every frame after the first waits
\* for next_step), on a stream whose frames carry no detections.
InitStepping == InitOf({-1, 0}, Trust2DValues, MinLandmarksValues, 0..MaxFrames)

QuietFrame == ProcessFrameOf(0)

NextStepping ==
    \/ LoopTop
    \/ WaitNextStep
    \/ QuietFrame
    \/ Shutdown
    \/ SlamPut
    \/ ConsumerCheck
    \/ ConsumerGet
    \/ RequestStop

\* Every thread keeps running: run, _fake_slam and the consumer each take
\* their next step when it is possible. Nobody is obliged to request a stop.
SpecStepping ==
    /\ InitStepping
    /\ [][NextStepping]_vars
    /\ WF_vars(LoopTop) /\ WF_vars(WaitNextStep) /\ WF_vars(QuietFrame)
    /\ WF_vars(Shutdown) /\ WF_vars(SlamPut)
    /\ WF_vars(ConsumerCheck) /\ WF_vars(ConsumerGet)

\* ---- properties ---------------------------------------------------------
\* A frame is complete when step has returned, the old tracks are removed and
\* the frame is published: run is back at the head of its loop.
FrameComplete == pc = "top" /\ frame > 0

Exited == pc \in {"done", "crashed"}

Last(q) == q[Len(q)]

MatchedIds(matches) == { matches[i].track_id : i \in 1..Len(matches) }

\* ---- C1 -------------------------------------------------------------------
\* C1: after every call of step followed by the removal of the deactivated
\* tracks, every track still in the active map has a pose under the current
\* img_id (matched or unmatched, with or without landmarks).
ActiveTracksHavePoseOfFrame ==
    FrameComplete =>
        \A t \in DOMAIN active_object_tracks :
            img_id \in Range(active_object_tracks[t].poses)

\* ---- C2 -------------------------------------------------------------------
SameKeys(track) ==
    /\ Range(track.poses) = track.pcl_centers
    /\ Range(track.poses) = Range(track.locations)
    /\ Range(track.poses) = track.rot_angle

\* C2: for every track of every published snapshot and of the final result,
\* the key sets of poses, pcl_centers, locations and rot_angle are equal, for
\* every value of MIN_LANDMARKS (0 too) and for a track newly created.
KeySetsCoincide ==
    /\ \A t \in DOMAIN last.object_tracks : SameKeys(last.object_tracks[t])
    /\ returned_data # << >> =>
         /\ \A t \in DOMAIN all_object_tracks : SameKeys(all_object_tracks[t])
         /\ \A t \in DOMAIN returned_data[1].trajectories :
              returned_data[1].trajectories[t].offline =
                returned_data[1].trajectories[t].online

\* ---- C3 -------------------------------------------------------------------
\* C3: over every frame, a track of the active map that is not matched in the
\* frame ends it with badly_tracked_frames one higher than before, and every
\* matched track ends it with badly_tracked_frames = 0, whatever the outcome
\* of the localisation.
BadlyTrackedFramesCounts ==
    [][ (pc = "wait_pose" /\ pc' = "top") =>
          LET after(t) == IF t \in DOMAIN active_object_tracks'
                          THEN active_object_tracks'[t] ELSE last'.removed[t]
              matched == MatchedIds(last'.matches)
          IN  /\ \A t \in matched : after(t).badly_tracked_frames = 0
              /\ \A t \in DOMAIN active_object_tracks \ matched :
                   after(t).badly_tracked_frames =
                     active_object_tracks[t].badly_tracked_frames + 1 ]_vars

\* A frame in which one track was missed and is kept with count 1 while
\* another track, already known, was matched.
MissedAndMatchedSeen ==
    /\ FrameComplete
    /\ \E t \in DOMAIN active_object_tracks :
         /\ active_object_tracks[t].badly_tracked_frames = 1
         /\ t \notin MatchedIds(last.matches)
    /\ \E t \in MatchedIds(last.matches) :
         /\ t \in DOMAIN active_object_tracks
         /\ Len(active_object_tracks[t].poses) > 1

\* ---- C4 -------------------------------------------------------------------
\* C4: a track deactivated in a frame leaves the active map in that frame and
\* is stored in the graveyard if and only if it has at least 2 poses; a track
\* dropped with fewer than 2 poses is afterwards in neither registry, and no
\* frame of it is in the final trajectory result.
DeactivatedTracksAreFiled ==
    /\ FrameComplete =>
         \A t \in DOMAIN last.removed :
             /\ t \notin DOMAIN active_object_tracks
             /\ Len(last.removed[t].poses) >= 2 <=>
                  (t \in DOMAIN all_object_tracks /\ all_object_tracks[t] = last.removed[t])
    /\ \A d \in discarded :
         /\ d[1] \in DOMAIN active_object_tracks =>
              active_object_tracks[d[1]].poses[1] # d[2]
         /\ d[1] \in DOMAIN all_object_tracks =>
              all_object_tracks[d[1]].poses[1] # d[2]
         /\ (returned_data # << >> /\ d[1] \in DOMAIN returned_data[1].trajectories) =>
              d[2] \notin returned_data[1].trajectories[d[1]].offline
                            \cup returned_data[1].trajectories[d[1]].online

\* One frame files a track in the graveyard, an earlier one dropped a track.
StoredAndDroppedSeen ==
    /\ FrameComplete
    /\ \E t \in DOMAIN last.removed : Len(last.removed[t].poses) >= 2
    /\ discarded # {}

\* ---- C5 -------------------------------------------------------------------
\* C5: for every TRUST_2D setting, while run is in its loop the active map
\* and the graveyard never hold the same id: no track is created under an id
\* the graveyard holds.
GraveyardIdsNeverActive ==
    ~Exited =>
        DOMAIN active_object_tracks \cap DOMAIN all_object_tracks = {}

\* ---- C6 -------------------------------------------------------------------
\* C6: after each frame no track left in the active map, and so none of the
\* published snapshot, is inactive, has badly_tracked_frames above
\* KEEP_TRACK_FOR_N_FRAMES_AFTER_LOST or above 0.75 times its number of poses.
NoOldTrackStaysActive ==
    FrameComplete =>
        /\ last.object_tracks = active_object_tracks
        /\ \A t \in DOMAIN active_object_tracks :
             LET track == active_object_tracks[t]
             IN  /\ track.active
                 /\ track.badly_tracked_frames <= KEEP_TRACK_FOR_N_FRAMES_AFTER_LOST
                 /\ 4 * track.badly_tracked_frames <= 3 * Len(track.poses)

\* A frame that removed a track for its count alone and kept another track.
OldTrackRemovedSeen ==
    /\ FrameComplete
    /\ active_object_tracks # << >>
    /\ \E t \in DOMAIN last.removed :
         /\ last.removed[t].active
         /\ last.removed[t].badly_tracked_frames <= KEEP_TRACK_FOR_N_FRAMES_AFTER_LOST

\* ---- C7 -------------------------------------------------------------------
\* C7: the frame records of shared_data carry the img_ids of the stream in
\* order, none skipped or repeated, and only the last item is a sentinel; a
\* stream of n frames processed without stop request and without failure
\* leaves exactly n frame records and then the sentinel, and when no frame
\* had a detection every record has an empty object_tracks map.
FrameRecordsThenSentinel ==
    /\ \A i \in 1..Len(shared_data) :
         IF shared_data[i].kind = "frame"
         THEN shared_data[i].img_id = i - 1
         ELSE i = Len(shared_data)
    /\ (Exited /\ ~stop_requested /\ ~last.raised) =>
         /\ Len(shared_data) = nframes + 1
         /\ \A i \in 1..nframes : shared_data[i].kind = "frame"
         /\ Last(shared_data) = Sentinel
         /\ ~seen_detection => \A i \in 1..nframes : shared_data[i].track_ids = {}

\* A stream of MaxFrames frames without detections, processed to its end.
QuietStreamProcessed ==
    /\ Exited /\ ~stop_requested /\ ~last.raised
    /\ nframes = MaxFrames
    /\ ~seen_detection

\* ---- C8 -------------------------------------------------------------------
SentinelsPut ==
    \A q \in { shared_data, writer_data_2d, writer_data_3d, writer_obb_data } :
        q # << >> /\ Last(q) = Sentinel

\* C8: once stop_flag is set, run eventually puts the sentinels and exits,
\* wherever it is in the frame loop, also while it waits for next_step or
\* for the ego poses.
StopLeadsToExit == stop_flag ~> (Exited /\ SentinelsPut)

\* C8, amended: run reads stop_flag at the head of the loop only. Found set
\* there, no further frame is begun; and once stop_flag is set run eventually
\* puts the sentinels and exits, unless it waits for a next_step that is not
\* set (the wait does not read stop_flag).
StopLeadsToExitAtLoopHead ==
    /\ (stop_flag /\ ~(pc = "wait_next" /\ ~next_step)) ~> (Exited /\ SentinelsPut)
    /\ [][ (pc = "top" /\ stop_flag) => pc' \in {"top", "shutdown"} ]_vars

\* A stop requested in stepping mode, and run has exited before the stream's end.
StoppedBeforeEndOfStream ==
    /\ continuous_until_img_id = 0
    /\ stop_requested /\ Exited /\ SentinelsPut
    /\ Len(shared_data) <= nframes

\* ---- C9 -------------------------------------------------------------------
\* C9: every termination of run has put exactly one trajectory result on
\* returned_data, whose track ids are the graveyard ids and the ids active
\* at termination.
OneResultOnEveryExit ==
    Exited =>
        /\ Len(returned_data) = 1
        /\ DOMAIN returned_data[1].trajectories =
             DOMAIN all_object_tracks \cup DOMAIN active_object_tracks
        /\ DOMAIN returned_data[1].track_id_to_class_mapping =
             DOMAIN all_object_tracks \cup DOMAIN active_object_tracks

\* ---- C10 ------------------------------------------------------------------
FrameRecords(q) == SelectSeq(q, LAMBDA x : x.kind = "frame")

\* C10: when step raises in frame k, no record of frame k is published, the
\* active map stays as it was after frame k-1, no later frame is begun, and
\* run exits with stop_flag set and the sentinel on all four queues.
RaisedFrameEndsRun ==
    last.raised =>
        /\ pc \in {"shutdown", "done", "crashed"}
        /\ frame = img_id + 1
        /\ Len(FrameRecords(shared_data)) = img_id
        /\ \A q \in { shared_data, writer_data_2d, writer_data_3d, writer_obb_data } :
             \A i \in 1..Len(q) : q[i].kind = "frame" => q[i].img_id < img_id
        /\ active_object_tracks = last.object_tracks
        /\ Exited => (stop_flag /\ SentinelsPut)

\* step raised in a frame that had active tracks, and run has exited.
RaisedWithActiveTracks ==
    /\ last.raised /\ Exited
    /\ active_object_tracks # << >>
    /\ frame < nframes

\* ---- bundle adjustment slots ----------------------------------------------
\* The windows of BA_EVERY_N_STEPS consecutive frames whose step returned.
WindowStarts == { i \in 1..Len(ba_log) : i + BA_EVERY_N_STEPS - 1 <= Len(ba_log) }

Window(i) == i..(i + BA_EVERY_N_STEPS - 1)

ActiveAtStart(j) == Range(ba_log[j].order)

SelectedIn(t, i) == { j \in Window(i) : t \in ba_log[j].to_run_ba }

SameActiveSet(i) == \A j \in Window(i) : ActiveAtStart(j) = ActiveAtStart(i)

StaysActive(t, i) == \A j \in Window(i) : t \in ActiveAtStart(j)

PositionIn(t, j) == CHOOSE k \in 1..Len(ba_log[j].order) : ba_log[j].order[k] = t

KeepsPosition(t, i) == \A j \in Window(i) : PositionIn(t, j) = PositionIn(t, i)

TracksSeen == UNION { ActiveAtStart(j) : j \in 1..Len(ba_log) }

\* C17 as stated: a track that stays active over BA_EVERY_N_STEPS consecutive
\* frames is in tracks_to_run_ba in exactly one of them, whatever happens to
\* the other tracks.
StayingTrackSelectedOnce ==
    \A i \in WindowStarts : \A t \in TracksSeen :
        StaysActive(t, i) => Cardinality(SelectedIn(t, i)) = 1

\* C17: a track that stays active over BA_EVERY_N_STEPS consecutive frames and
\* keeps its position in the order of the active tracks is in tracks_to_run_ba
\* in exactly one of them, also when other tracks are created or removed.
TrackAtFixedPositionSelectedOnce ==
    \A i \in WindowStarts : \A t \in TracksSeen :
        (StaysActive(t, i) /\ KeepsPosition(t, i)) => Cardinality(SelectedIn(t, i)) = 1

FixedPositionWhileSetChanges ==
    \E i \in WindowStarts : \E t \in TracksSeen :
        StaysActive(t, i) /\ KeepsPosition(t, i) /\ ~SameActiveSet(i)

SlotIndexes == 1..BA_EVERY_N_STEPS

\* C18: in every frame, after the slots are refilled, every id active at the
\* start of the frame is in exactly one slot, no other id is in a slot, the
\* sizes of two slots differ by at most 1, and at most ceil(n / BA_EVERY_N_STEPS)
\* of the n active tracks are selected for BA.
SlotsPartitionActiveIdsEvenly ==
    \A j \in 1..Len(ba_log) :
        LET e == ba_log[j]
            n == Cardinality(ActiveAtStart(j))
        IN  /\ DOMAIN e.slots = SlotIndexes
            /\ \A t \in ActiveAtStart(j) :
                   Cardinality({ k \in SlotIndexes : t \in e.slots[k] }) = 1
            /\ \A k \in SlotIndexes : e.slots[k] \subseteq ActiveAtStart(j)
            /\ \A k, l \in SlotIndexes :
                   Cardinality(e.slots[k]) - Cardinality(e.slots[l]) <= 1
            /\ e.to_run_ba = e.slots[((j - 1) % BA_EVERY_N_STEPS) + 1]
            /\ Cardinality(e.to_run_ba) * BA_EVERY_N_STEPS <= n + BA_EVERY_N_STEPS - 1

SeveralTracksInSlots ==
    \E j \in 1..Len(ba_log) :
        /\ Cardinality(ActiveAtStart(j)) >= 2
        /\ ba_log[j].to_run_ba # {}

\* ---- the pose queue -------------------------------------------------------
\* C14: every take from the pose queue takes one message, the next in the
\* order of the puts, for the frame in work; the message holds the pose of
\* img_id, whatever the provider and the core did before; and no frame is
\* processed without a take.
OneEgoPoseMessagePerFrame ==
    [][ /\ (slam_taken' # slam_taken) =>
            /\ pc = "wait_pose"
            /\ slam_taken = img_id
            /\ slam_taken' = slam_taken + 1
            /\ slam_taken' <= slam_put
            /\ all_poses' > img_id
            /\ pc' # "crashed"
        /\ (ba_log' # ba_log \/ last' # last) => slam_taken' = slam_taken + 1
      ]_vars

\* Two messages were taken while the provider had run ahead of the core.
TakesWithProviderAhead == slam_taken >= 2 /\ slam_put > slam_taken /\ all_poses = 2

\* ---- stepping mode --------------------------------------------------------
Stepped(id) == continuous_until_img_id # -1 /\ id > continuous_until_img_id

FramesProcessed == Len(ba_log)

\* C15: a frame after continuous_until_img_id is admitted only when next_step
\* is set, and the admission clears the flag; the number of such frames that
\* were processed never exceeds the number of times the consumer set the flag;
\* the other frames, and all frames of a continuous run, never wait; and with
\* the consumer setting next_step after every record it takes, every frame is
\* processed in the end unless a stop is requested.
SteppingAdmitsOneFramePerSignal ==
    /\ [][ /\ (pc # "wait_pose" /\ pc' = "wait_pose" /\ Stepped(img_id')) =>
               (pc = "wait_next" /\ next_step /\ ~next_step')
           /\ (pc' = "wait_next" => Stepped(img_id'))
           /\ (pc # "wait_pose" /\ pc' = "wait_pose" /\ ~Stepped(img_id')) =>
               (pc = "top" /\ ~next_step')
           /\ (FramesProcessed' # FramesProcessed => pc = "wait_pose")
         ]_vars
    /\ [](Stepped(FramesProcessed - 1) =>
             FramesProcessed - (continuous_until_img_id + 1) <= consumed)
    /\ <>(stop_requested \/ FramesProcessed = nframes)

SteppedFramesProcessed ==
    /\ continuous_until_img_id = 0
    /\ ~stop_requested
    /\ nframes = MaxFrames
    /\ FramesProcessed = nframes
    /\ consumed >= nframes - 1

\* ---- the functions on their own -------------------------------------------
Returned(fn) == call.fn = fn /\ result # NoCall

PnPConditions(c) ==
    c.num_matches >= 4 /\ c.ransac /\ 4 * c.num_inliers > c.num_matches /\ c.refined

\* C13: _localize_object reports success only when it was given at least 4
\* correspondences, RANSAC succeeded with an inlier ratio above 0.25 and the
\* refinement succeeded; in every other case it returns the input pose, false
\* and the inlier ratio 0.
LocalizeSucceedsOnlyWhenAllStagesDo ==
    Returned("_localize_object") =>
        /\ result.successful => (PnPConditions(call) /\ result.pose = "optimized_pose")
        /\ ~PnPConditions(call) =>
               /\ result.pose = "T_cam_obj"
               /\ ~result.successful
               /\ result.inlier_ratio[1] = 0

\* The refinement failed after a RANSAC stage with exactly enough inliers.
RefinementFailureReturned ==
    /\ Returned("_localize_object")
    /\ call.num_matches = 4 /\ call.ransac /\ call.num_inliers = 2 /\ ~call.refined
    /\ result.pose = "T_cam_obj"

\* The poses advance by the same translation v in every frame.
AdvancesBy(poses, v) == \A k \in 1..(Len(poses) - 1) : poses[k + 1].num = poses[k].num + v

\* C16: _estimate_next_pose returns the last pose when the track has fewer
\* than 2 poses; otherwise it returns the rotation of the last pose, and for
\* a track advancing by v in every frame the translation t_last + v.
PredictionContinuesConstantMotion ==
    Returned("_estimate_next_pose") =>
        LET poses == call.poses
            T_last == poses[Len(poses)]
        IN  IF Len(poses) < 2
            THEN result = T_last
            ELSE /\ result.rot = T_last.rot
                 /\ \A v \in (-MaxCoord)..MaxCoord :
                        AdvancesBy(poses, v) => result.num = (T_last.num + v) * result.den

PnPSucceeded(c) ==
    c.cached \/ LocalizeObject(c.num_matches, c.ransac, c.num_inliers, c.refined).successful

\* C20: with at least 5 track matches, _process_match adopts the PnP pose
\* whenever PnP succeeded and the motion is valid, whatever the number of
\* poses of the track; in every other case it adopts the prediction.
PnPPoseAdoptedWheneverValid ==
    Returned("_process_match") =>
        result.pose = IF call.num_matches >= 5 /\ PnPSucceeded(call) /\ call.valid_motion
                      THEN "T_cam_obj_pnp"
                      ELSE "prediction"

TrackAfterFrame(t) ==
    IF t \in DOMAIN last.object_tracks THEN last.object_tracks[t] ELSE last.removed[t]

\* C19: bundle adjustment runs for a track in a frame only if the track was
\* matched in the frame, its id is in tracks_to_run_ba of the frame, so that it
\* was active when the frame began, it had more than 3 poses and it has
\* landmarks after the pruning; never for an unmatched or a new track.
BAOnlyForMatchedTracksOfTheSlot ==
    [][ ba_log' # ba_log =>
          \A t \in last'.ba :
              /\ t \in MatchedIds(last'.matches)
              /\ t \in Last(ba_log').to_run_ba
              /\ t \in DOMAIN active_object_tracks
              /\ Len(active_object_tracks[t].poses) > 3
              /\ TrackAfterFrame(t)'.lm > 0
      ]_vars

\* Bundle adjustment ran in a frame that also had a track without it.
BARanBesideOtherTrack ==
    /\ last.ba # {}
    /\ (DOMAIN last.object_tracks \cup DOMAIN last.removed) \ last.ba # {}

\* ---- identity collision ---------------------------------------------------
\* The ids a detection of the last frame was matched to.
MatchedTo(i) ==
    { last.matches[k].track_id :
        k \in { k \in 1..Len(last.matches) : last.matches[k].detection_id = i } }

\* The track an external id designates: itself, or what it is remapped to.
Designated(e) == MapGet(track_id_mapping, e)

\* C12: when the two detections of a frame carry one external id that
\* designates a track active at the start of the frame, one of them is matched
\* to that track and the other to a fresh id, which is neither active nor in
\* the graveyard.
SharedIdMatchesOnceAndSpawnsOnce ==
    [][ ( /\ ba_log' # ba_log
          /\ Len(last'.track_ids) = 2
          /\ last'.track_ids[1] = last'.track_ids[2]
          /\ Designated(last'.track_ids[1]) \in DOMAIN active_object_tracks ) =>
        \E i \in 1..2 :
            /\ MatchedTo(i)' = { Designated(last'.track_ids[1]) }
            /\ \E f \in MatchedIds(last'.matches) :
                   /\ MatchedTo(3 - i)' = { f }
                   /\ f \notin DOMAIN active_object_tracks \cup DOMAIN all_object_tracks
      ]_vars

\* ---- the reference pose of the gate --------------------------------------
\* C21: in Stage A and in process-match the relative transform of the gate is
\* taken against the most recently recorded pose of the track, the same pose
\* in both places.
GateUsesLastPoseInBothPlaces ==
    Returned("T_world_obj_prev") =>
        /\ result.stage_a = Len(call.poses)
        /\ Len(call.poses) >= 2 => result.process_match = result.stage_a

\* ---- the median translation ------------------------------------------------
\* The distances between consecutive frames among the last 2 x SLIDING_WINDOW_BA
RecentTranslations(locations) ==
    LET n == Min(Len(locations), 2 * SLIDING_WINDOW_BA)
        first == Len(locations) - n
    IN  [ i \in 1..(n - 1) |-> Norm(locations[first + i] - locations[first + i + 1]) ]

\* C22: get_median_translation returns the median of the distances between
\* consecutive frames among the most recent 2 x SLIDING_WINDOW_BA frames of the
\* track, and None when the track has fewer than two frames.
MedianIsOfMostRecentFrames ==
    Returned("get_median_translation") =>
        result.median = IF Len(call.locations) < 2 THEN "None"
                        ELSE Median(RecentTranslations(call.locations))

\* ---- the association -------------------------------------------------------
\* The matches of the frame that just ended whose track was in the active map
\* when the frame began (the unprimed state of the step).
MatchesToExistingTracks ==
    { k \in 1..Len(last'.matches) : last'.matches[k].track_id \in DOMAIN active_object_tracks }

\* C24: unless TRUST_2D is "yes", no match of a frame pairs a detection with
\* an existing track of another class.
MatchesKeepTheClass ==
    [][ (ba_log' # ba_log /\ TRUST_2D # "yes") =>
          \A k \in MatchesToExistingTracks :
              active_object_tracks[last'.matches[k].track_id].cls
                = last'.detections[last'.matches[k].detection_id].cls
      ]_vars

\* C23: a match made by the distance test of Stage B with the track T is
\* decided by T's own class, latest location, badly_tracked_frames,
\* dist_from_cam and poses, never by those of another track.
StageBTestsTheDesignatedTrack ==
    \A c \in last.corroborated : c.track = c.track_id

\* ---- in_view -----------------------------------------------------------
\* The tracks of the active map (as the frame finds it) on which the frame
\* that just ended made the in-view test.
TestedInFrame ==
    IF TRUST_2D = "yes" THEN {}
    ELSE InViewTested(last'.detections, DOMAIN active_object_tracks, active_object_tracks)

\* C25: in every frame, every track that was active before the frame and is
\* active after it had its in-view test made in that frame, so its in_view
\* flag (and the masks constant motion derives from it) is of that frame.
InViewIsOfTheFrame ==
    [][ ba_log' # ba_log =>
          \A t \in DOMAIN active_object_tracks \cap DOMAIN active_object_tracks' :
              t \in TestedInFrame
      ]_vars

\* ---- ids of new tracks ----------------------------------------------------
\* The matches of the frame that just ended whose track was not in the active
\* map when the frame began: step creates a track for each of them.
MatchesToNewTracks ==
    { k \in 1..Len(last'.matches) : last'.matches[k].track_id \notin DOMAIN active_object_tracks }

\* Every id a track has been given before the frame: the tracks are in the
\* active map, in the graveyard, or were dropped with fewer than 2 poses.
IdsGivenBefore ==
    DOMAIN active_object_tracks \cup DOMAIN all_object_tracks \cup { d[1] : d \in discarded }

\* C26: with TRUST_2D "no", the ids of the tracks a frame creates are pairwise
\* distinct and none of them was given to a track before.
NewIdsAreFresh ==
    [][ (ba_log' # ba_log /\ TRUST_2D = "no") =>
          /\ \A k \in MatchesToNewTracks :
                last'.matches[k].track_id \notin IdsGivenBefore
          /\ \A j, k \in MatchesToNewTracks :
                (j # k => last'.matches[j].track_id # last'.matches[k].track_id)
      ]_vars

\* ---- robust initialisation ------------------------------------------------
\* The tracks the frame that just ended has matched.
MatchedInFrame == { last'.matches[k].track_id : k \in 1..Len(last'.matches) }

\* The removed tracks to which the process-match of the frame applied the
\* robust-init deactivation: one pose, fewer landmarks than MIN_LANDMARKS.
RobustInitDeactivated ==
    { t \in DOMAIN last'.removed \cap MatchedInFrame :
        /\ MIN_LANDMARKS > 0
        /\ Len(last'.removed[t].poses) = 1
        /\ last'.removed[t].lm < MIN_LANDMARKS }

\* C27: with MIN_LANDMARKS > 0, a track created in a frame with fewer than
\* MIN_LANDMARKS landmarks does not stay in the active map and is not stored in
\* the graveyard, and the robust-init deactivation is applied to a track only
\* in the frame that created it.
RobustInitOnlyInFirstFrame ==
    [][ (ba_log' # ba_log /\ MIN_LANDMARKS > 0) =>
          /\ \A t \in DOMAIN active_object_tracks' \ DOMAIN active_object_tracks :
                active_object_tracks'[t].lm >= MIN_LANDMARKS
          /\ \A t \in RobustInitDeactivated :
                /\ t \notin DOMAIN active_object_tracks
                /\ (t \in DOMAIN all_object_tracks' =>
                      all_object_tracks'[t].poses[1] # last'.removed[t].poses[1])
      ]_vars

\* ---- detections without stereo points -------------------------------------
\* C28: unless TRUST_2D is "yes", a detection whose median is None is matched
\* to no track that was in the active map when the frame began: the matches it
\* gets are those that create a track.
NoMedianNoExistingTrack ==
    [][ (ba_log' # ba_log /\ TRUST_2D # "yes") =>
          \A k \in MatchesToExistingTracks :
              last'.detections[last'.matches[k].detection_id].median
      ]_vars

\* A frame has ended in which a detection without stereo points carried the
\* id of an active track of its class that the frame found unmatched before
\* and has left unmatched again.
MedianlessDetectionBesideItsTrack ==
    /\ TRUST_2D = "partial"
    /\ ~last.raised
    /\ \E d \in 1..Len(last.detections) :
          LET t == MapGet(track_id_mapping, last.detections[d].track_id)
          IN  /\ ~last.detections[d].median
              /\ t \in DOMAIN last.object_tracks
              /\ last.object_tracks[t].cls = last.detections[d].cls
              /\ last.object_tracks[t].locations # << >>
              /\ last.object_tracks[t].badly_tracked_frames >= 1
              /\ \A k \in 1..Len(last.matches) : last.matches[k].detection_id # d

\* ---- unmatched tracks -----------------------------------------------------
\* The track t as the frame that just ended has left it, kept or removed.
TrackLeftByFrame(t) ==
    IF t \in DOMAIN last'.removed THEN last'.removed[t] ELSE last'.object_tracks[t]

\* C29: a track the frame leaves unmatched has badly_tracked_frames incremented,
\* and gets a location or a rotation angle for the img_id of the frame only if
\* it is in view.
UnmatchedOutOfViewGetsNoLocation ==
    [][ ba_log' # ba_log =>
          \A t \in DOMAIN active_object_tracks \ MatchedInFrame :
              /\ TrackLeftByFrame(t).badly_tracked_frames
                    = active_object_tracks[t].badly_tracked_frames + 1
              /\ (img_id \in Range(TrackLeftByFrame(t).locations) \cup TrackLeftByFrame(t).rot_angle
                    => TrackLeftByFrame(t).in_view)
      ]_vars

\* ---- the match list -------------------------------------------------------
\* C30: the match list of a frame is one-to-one: no detection index and no
\* track id is in two of its entries.
MatchListIsOneToOne ==
    \A j, k \in 1..Len(last.matches) :
        j # k => /\ last.matches[j].detection_id # last.matches[k].detection_id
                 /\ last.matches[j].track_id # last.matches[k].track_id
====
